---- MODULE Spec2Model ----
(***************************************************************************)
(* Position-tracking and analysis-orchestration loop of the chess          *)
(* assistant: ChessAssistant (content/assistant.ts), AnalysisManager       *)
(* (core/analysis.manager.ts), EngineService (services/engine.service.ts), *)
(* AutoPlayManager (core/autoplay.manager.ts), BoardService and the panel  *)
(* buttons that drive the entry points (components/panel.component.ts).    *)
(*                                                                         *)
(* The program runs on one event-loop thread: every handler below is one   *)
(* atomic action.  The engine worker, the board of the host page, the      *)
(* clock and the user are the environment.                                 *)
(***************************************************************************)
EXTENDS Integers, Sequences, FiniteSets, TLC

\* ---------------------------------------------------------------- constants
MAX_HISTORY_SIZE == 100
MAX_REPETITION_COUNT == 3
REPETITION_DEPTH_THRESHOLD == 20
MIN_DEPTH == 1
MAX_DEPTH == 26
defaultDepth == 15
autoPlayDepth == 2

\* ------------------------------------------------------------------- bounds
MaxTime == 1          \* clock values 0..MaxTime (milliseconds that matter)
MaxEvents == 6        \* events of the environment in one behaviour: clicks on
                      \* the panel, lines posted by a worker, worker errors,
                      \* moves played on the page
MaxInflight == 1      \* worker messages queued for the main thread
MaxWorkers == 2       \* worker slots (live workers at one time)
MaxListeners == 2     \* subscriptions to the engine event stream
MaxReq == 3           \* analyze() requests in one behaviour
MaxLogged == 3
MaxTimers == 1        \* pending delayed callbacks of each kind

\* --------------------------------------------------------------- value sets
Moves == {"e2e4", "d2d4"}
Scores == {20}
\* the quick depth, the cutoff floor, and one past the accepted range
Depths == {autoPlayDepth, REPETITION_DEPTH_THRESHOLD, MAX_DEPTH + 1}
Colors == {"w"}

NoMove == ""           \* null / empty move: both are falsy in `!move`
NoneToken == "(none)"  \* the engine's "no move available" token
Null == <<>>           \* null score, null timestamp, empty FEN ''
Some(x) == <<x>>

\* new Date().toISOString() and new Date(iso): the stored form of an instant
toISOString(t) == [iso |-> t]
DateOf(s) == s.iso

Min(a, b) == IF a < b THEN a ELSE b

VARIABLES
  \* ChessAssistant
  isActive, playerColor, pollingInterval, waitingForOpponentMove,
  \* AutoPlayManager
  autoPlayIsActive,
  \* AnalysisManager
  history, lastBestMove, moveRepetitionCount, lastOpponentMoveTimestamp,
  \* EngineService
  worker, state, currentBestMove, currentScore, currentDepth,
  analysisTimeout, listeners,
  \* BoardService
  boardElement, lastBoardState,
  \* PanelComponent
  colorShown, controlDisabled, secondaryShown, panelAutoPlay,
  \* pending setTimeout callbacks of ChessAssistant
  quickTimers, execTimers, settleTimers,
  \* environment: host page, clock, workers
  board, now, live, wsearch, inflight, events,
  \* history variables of the run (observers only, never read by the program)
  nReq, accReq, oppReq, seen, pollLog, stale, turnExecs, finalReq,
  \* what the last step did (observers only, reset at the start of a step)
  adds, execs, stops, notes, subs

vars == <<isActive, playerColor, pollingInterval, waitingForOpponentMove,
          autoPlayIsActive, history, lastBestMove, moveRepetitionCount,
          lastOpponentMoveTimestamp, worker, state, currentBestMove,
          currentScore, currentDepth, analysisTimeout, listeners,
          boardElement, lastBoardState, colorShown, controlDisabled,
          secondaryShown, panelAutoPlay, quickTimers, execTimers,
          settleTimers, board, now, live, wsearch, inflight, events,
          nReq, accReq, oppReq, seen, pollLog, stale, turnExecs,
          finalReq, adds, execs, stops, notes, subs>>

\* The whole state as one record, so that a handler is a function from
\* state to state and handlers compose the way the calls do in the code.
Cur ==
  [isActive |-> isActive, playerColor |-> playerColor,
   pollingInterval |-> pollingInterval,
   waitingForOpponentMove |-> waitingForOpponentMove,
   autoPlayIsActive |-> autoPlayIsActive, history |-> history,
   lastBestMove |-> lastBestMove, moveRepetitionCount |-> moveRepetitionCount,
   lastOpponentMoveTimestamp |-> lastOpponentMoveTimestamp,
   worker |-> worker, state |-> state, currentBestMove |-> currentBestMove,
   currentScore |-> currentScore, currentDepth |-> currentDepth,
   analysisTimeout |-> analysisTimeout, listeners |-> listeners,
   boardElement |-> boardElement, lastBoardState |-> lastBoardState,
   colorShown |-> colorShown, controlDisabled |-> controlDisabled,
   secondaryShown |-> secondaryShown, panelAutoPlay |-> panelAutoPlay,
   quickTimers |-> quickTimers, execTimers |-> execTimers,
   settleTimers |-> settleTimers, board |-> board, events |-> events,
   now |-> now, live |-> live, wsearch |-> wsearch, inflight |-> inflight,
   nReq |-> nReq, accReq |-> accReq, oppReq |-> oppReq,
   seen |-> seen, pollLog |-> pollLog, stale |-> stale,
   turnExecs |-> turnExecs, finalReq |-> finalReq,
   adds |-> adds, execs |-> execs,
   stops |-> stops, notes |-> notes, subs |-> subs]

Set(S) ==
  /\ isActive' = S.isActive
  /\ playerColor' = S.playerColor
  /\ pollingInterval' = S.pollingInterval
  /\ waitingForOpponentMove' = S.waitingForOpponentMove
  /\ autoPlayIsActive' = S.autoPlayIsActive
  /\ history' = S.history
  /\ lastBestMove' = S.lastBestMove
  /\ moveRepetitionCount' = S.moveRepetitionCount
  /\ lastOpponentMoveTimestamp' = S.lastOpponentMoveTimestamp
  /\ worker' = S.worker
  /\ state' = S.state
  /\ currentBestMove' = S.currentBestMove
  /\ currentScore' = S.currentScore
  /\ currentDepth' = S.currentDepth
  /\ analysisTimeout' = S.analysisTimeout
  /\ listeners' = S.listeners
  /\ boardElement' = S.boardElement
  /\ lastBoardState' = S.lastBoardState
  /\ colorShown' = S.colorShown
  /\ controlDisabled' = S.controlDisabled
  /\ secondaryShown' = S.secondaryShown
  /\ panelAutoPlay' = S.panelAutoPlay
  /\ quickTimers' = S.quickTimers
  /\ execTimers' = S.execTimers
  /\ settleTimers' = S.settleTimers
  /\ board' = S.board
  /\ events' = S.events
  /\ now' = S.now
  /\ live' = S.live
  /\ wsearch' = S.wsearch
  /\ inflight' = S.inflight
  /\ nReq' = S.nReq
  /\ accReq' = S.accReq
  /\ oppReq' = S.oppReq
  /\ seen' = S.seen
  /\ pollLog' = S.pollLog
  /\ stale' = S.stale
  /\ turnExecs' = S.turnExecs
  /\ finalReq' = S.finalReq
  /\ adds' = S.adds
  /\ execs' = S.execs
  /\ stops' = S.stops
  /\ notes' = S.notes
  /\ subs' = S.subs

\* The bounds of a behaviour: a step that would exceed one is not taken.
WithinBounds(S) ==
  /\ S.nReq <= MaxReq
  /\ S.quickTimers <= MaxTimers
  /\ S.execTimers <= MaxTimers
  /\ S.settleTimers <= MaxTimers
  /\ S.listeners <= MaxListeners
  /\ S.events <= MaxEvents

Do(S) == WithinBounds(S) /\ Set(S)

\* The state a handler starts from: nothing done yet in this step.
Now ==
  [Cur EXCEPT !.adds = <<>>, !.execs = <<>>, !.stops = 0, !.notes = {},
              !.subs = <<>>]

\* observer: something that happened inside the step
Noted(S, what) == [S EXCEPT !.notes = @ \cup {what}]

\* observer: of the pending setTimeout callbacks of each kind, how many were
\* set before the latest activation began.  Callbacks of one delay run in the
\* order they were set, so the ones set before it run first.
NoneStale == [quick |-> 0, exec |-> 0, settle |-> 0]

Pending(S) ==
  [quick |-> S.quickTimers, exec |-> S.execTimers, settle |-> S.settleTimers]

Fired(S, kind) ==
  IF S.stale[kind] > 0
    THEN [Noted(S, "set before this activation") EXCEPT !.stale[kind] = @ - 1]
    ELSE S

\* ============================================================ AnalysisManager
Entry(move, score, depth, isFinal, t, req) ==
  [move |-> move, score |-> score, depth |-> depth, isFinal |-> isFinal,
   timestamp |-> toISOString(t), req |-> req]

\* if (!move || score === null || !depth) return false;
\* if (depth < 1 || depth > 26) return false;
IsInvalidEntry(move, score, depth) ==
  \/ move = NoMove
  \/ score = Null
  \/ depth = 0
  \/ depth < MIN_DEPTH
  \/ depth > MAX_DEPTH

\* mutant: the duplicate check compares with nothing
IsDuplicate_Dropped(h, move, depth) == FALSE

\* lastEntry?.depth === depth && lastEntry?.move === move
IsDuplicate(h, move, depth) ==
  /\ Len(h) > 0
  /\ h[1].depth = depth
  /\ h[1].move = move

\* mutant: > for >= on the counter
RepetitionCutoff_Late(count, depth) ==
  /\ count > MAX_REPETITION_COUNT
  /\ depth >= REPETITION_DEPTH_THRESHOLD

\* moveRepetitionCount >= MAX_REPETITION_COUNT && depth >= REPETITION_DEPTH_THRESHOLD
RepetitionCutoff(count, depth) ==
  /\ count >= MAX_REPETITION_COUNT
  /\ depth >= REPETITION_DEPTH_THRESHOLD

\* mutant: the size limit is missing
Unshift_NoLimit(h, e) == <<e>> \o h

\* mutant: the entry that was the head is dropped instead of the tail
Unshift_EvictsNewest(h, e) ==
  IF Len(h) + 1 > MAX_HISTORY_SIZE THEN <<e>> \o Tail(h) ELSE <<e>> \o h

\* mutant: the entry is added at the tail
Unshift_Push(h, e) ==
  LET h1 == h \o <<e>>
  IN IF Len(h1) > MAX_HISTORY_SIZE THEN SubSeq(h1, 1, Len(h1) - 1) ELSE h1

\* history.unshift(e); if (history.length > MAX_HISTORY_SIZE) history.pop();
Unshift(h, e) ==
  LET h1 == <<e>> \o h
  IN IF Len(h1) > MAX_HISTORY_SIZE THEN SubSeq(h1, 1, Len(h1) - 1) ELSE h1

\* The outcome of addEntry: the returned boolean, the branch that returned,
\* and the manager's fields afterwards.
AddOutcome(S, move, score, depth, isFinal) ==
  IF IsInvalidEntry(move, score, depth)
    THEN [ok |-> FALSE, why |-> "invalid", S |-> S]
  ELSE IF IsDuplicate(S.history, move, depth)
    THEN [ok |-> FALSE, why |-> "duplicate", S |-> S]
  ELSE IF move = S.lastBestMove
         /\ RepetitionCutoff(S.moveRepetitionCount + 1, depth)
    THEN [ok |-> FALSE, why |-> "repetition",
          S |-> [S EXCEPT !.moveRepetitionCount = @ + 1]]
  ELSE LET S1 == IF move = S.lastBestMove
                   THEN [S EXCEPT !.moveRepetitionCount = @ + 1]
                   ELSE [S EXCEPT !.lastBestMove = move,
                                  !.moveRepetitionCount = 1]
       IN [ok |-> TRUE, why |-> "accepted",
           S |-> [S1 EXCEPT !.history =
                    Unshift(@, Entry(move, score, depth, isFinal,
                                     S.now, S.accReq))]]

\* What an observer of the addEntry calls remembers since the last clear:
\* the last call, the number of consecutive calls reporting its move, and the
\* same count over the calls that passed validation and the duplicate check.
NoCalls ==
  [called |-> FALSE, move |-> NoMove, depth |-> 0, calls |-> 0,
   passed |-> 0, passMove |-> NoMove]

Remember(log, r, move, depth) ==
  LET pass == r.why \in {"accepted", "repetition"}
  IN [called |-> TRUE, move |-> move, depth |-> depth,
      calls |-> IF log.called /\ log.move = move
                  THEN Min(log.calls + 1, MAX_REPETITION_COUNT) ELSE 1,
      passed |-> IF ~pass THEN log.passed
                 ELSE IF log.passMove = move
                   THEN Min(log.passed + 1, MAX_REPETITION_COUNT) ELSE 1,
      passMove |-> IF pass THEN move ELSE log.passMove]

\* The record of one addEntry call
CallRecord(S, r, move, depth, isFinal) ==
  LET log == Remember(S.seen, r, move, depth)
  IN [move |-> move, depth |-> depth, isFinal |-> isFinal,
      accepted |-> r.ok, why |-> r.why,
      repeat |-> S.seen.called /\ S.seen.move = move /\ S.seen.depth = depth,
      calls |-> log.calls,
      passed |-> IF r.why \in {"accepted", "repetition"} THEN log.passed
                 ELSE 0,
      histChanged |-> r.S.history # S.history,
      lenBefore |-> Len(S.history),
      stopsBefore |-> S.stops, stopsAfter |-> S.stops]

addEntry(S, move, score, depth, isFinal) ==
  LET r == AddOutcome(S, move, score, depth, isFinal)
  IN [r.S EXCEPT !.seen = Remember(S.seen, r, move, depth),
                 !.adds = Append(@, CallRecord(S, r, move, depth, isFinal))]

\* mutant: the history is left as it is
clearHistory_Kept(S) == S

\* mutant: the history is emptied, the repetition tracker is not reset
clearHistory_KeepsTracker(S) == [S EXCEPT !.history = <<>>]

clearHistory(S) ==
  [S EXCEPT !.history = <<>>, !.lastBestMove = NoMove,
            !.moveRepetitionCount = 0, !.seen = NoCalls]

recordOpponentMove(S) ==
  [S EXCEPT !.lastOpponentMoveTimestamp = Some(S.now)]

\* mutant: the head's move, final or not
getLatestBestMove_Head(S) ==
  IF Len(S.history) > 0 THEN S.history[1].move ELSE NoMove

\* history.find(e => e.isFinal)?.move ?? history[0]?.move ?? null
getLatestBestMove(S) ==
  LET finals == SelectSeq(S.history, LAMBDA e : e.isFinal)
  IN IF Len(finals) > 0 THEN finals[1].move
     ELSE IF Len(S.history) > 0 THEN S.history[1].move
     ELSE NoMove

\* mutant: >= for >
IsAfterOpponentMove_OrAt(S, e) ==
  DateOf(e.timestamp) >= S.lastOpponentMoveTimestamp[1]

\* moveTime > this.lastOpponentMoveTimestamp
IsAfterOpponentMove(S, e) ==
  DateOf(e.timestamp) > S.lastOpponentMoveTimestamp[1]

getValidMovesForAutoPlay(S, targetDepth) ==
  IF S.lastOpponentMoveTimestamp = Null THEN <<>>
  ELSE SelectSeq(S.history,
         LAMBDA e : IsAfterOpponentMove(S, e) /\ e.depth = targetDepth)

\* the filter of getAnyValidMoveForAutoPlay, before the fallback and the sort
validMovesOfAny(S) ==
  IF S.lastOpponentMoveTimestamp = Null THEN <<>>
  ELSE SelectSeq(S.history, LAMBDA e : IsAfterOpponentMove(S, e))

\* mutant: the comparator looks at the depth only
SortsBefore_DepthOnly(a, b) == a.depth > b.depth

\* the comparator of validMoves.sort: negative when a sorts before b
SortsBefore(a, b) ==
  \/ a.isFinal /\ ~b.isFinal
  \/ a.isFinal = b.isFinal /\ a.depth > b.depth

\* validMoves.sort(...)[0]: Array.prototype.sort is stable, so the first
\* element is the earliest one that no other element sorts before.
FirstSorted(v) ==
  LET best == {i \in 1..Len(v) : \A j \in 1..Len(v) : ~SortsBefore(v[j], v[i])}
      i0 == CHOOSE i \in best : \A k \in best : i <= k
  IN v[i0]

\* Null, or Some(entry)
getAnyValidMoveForAutoPlay(S) ==
  LET head == IF Len(S.history) > 0 THEN Some(S.history[1]) ELSE Null
  IN IF S.lastOpponentMoveTimestamp = Null THEN head
     ELSE IF Len(validMovesOfAny(S)) = 0 THEN head
     ELSE Some(FirstSorted(validMovesOfAny(S)))

shouldStopAnalysis(S) ==
  /\ S.moveRepetitionCount >= MAX_REPETITION_COUNT
  /\ (IF Len(S.history) > 0 THEN S.history[1].depth ELSE 0)
       >= REPETITION_DEPTH_THRESHOLD

\* ================================================================ BoardService
\* generateFEN(): '' without a board element, else the position of the page
generateFEN(S) == IF S.boardElement THEN Some(S.board) ELSE Null

updateLastBoardState(S) == [S EXCEPT !.lastBoardState = generateFEN(S)]

\* hasBoardChanged() also stores the new position when it differs
hasBoardChanged(S) == generateFEN(S) # S.lastBoardState

\* ============================================================== PanelComponent
showColorSelection(S) ==
  [S EXCEPT !.colorShown = TRUE, !.controlDisabled = TRUE]

showActiveState(S) ==
  [S EXCEPT !.colorShown = FALSE, !.controlDisabled = FALSE,
            !.secondaryShown = TRUE]

showInactiveState(S) ==
  [S EXCEPT !.colorShown = FALSE, !.controlDisabled = FALSE,
            !.secondaryShown = FALSE, !.panelAutoPlay = FALSE]

\* ============================================================= AutoPlayManager
\* observer: the executeMove calls since the latest activation or detection
\* of an opponent move are counted from the first one that succeeded, up to
\* this number
MaxCounted == 2

\* What the host page answers when autoplay looks at it: whether the game-over
\* markers are present (isGameOver) and whether the piece to click and the
\* overlay are found (executeMove).
PageAnswers == [over : BOOLEAN, found : BOOLEAN]

\* mutant: auto-play always counts as switched on
isAutoPlayActive_Always(S) == TRUE

\* AutoPlayManager.isAutoPlayActive
isAutoPlayActive(S) == S.autoPlayIsActive

\* mutant: the game-over markers are never seen
isGameOver_Never(page) == FALSE

isGameOver(page) == page.over

\* executeMove(move): dispatches the clicks; fails without a board element or
\* when the piece or the overlay is not found
executeMove(S, page) == S.boardElement /\ page.found

\* ChessAssistant.executeAutoPlay
\* mutant: the depth-matched query is skipped
selectedEntry_Any(S) == getAnyValidMoveForAutoPlay(S)

\* the entry executeAutoPlay settles on: the first depth-matched one, else
\* whatever getAnyValidMoveForAutoPlay returns (Null, or Some(entry))
selectedEntry(S) ==
  LET validMoves == getValidMovesForAutoPlay(S, autoPlayDepth)
  IN IF Len(validMoves) > 0 THEN Some(validMoves[1])
     ELSE getAnyValidMoveForAutoPlay(S)

executeAutoPlay(S0, page) ==
  LET S == IF isAutoPlayActive(S0) /\ page.over
             THEN Noted(Noted(S0, "executeAutoPlay"), "gameover")
             ELSE Noted(S0, "executeAutoPlay")
  IN
  IF ~isAutoPlayActive(S) THEN S
  ELSE IF isGameOver(page) THEN [S EXCEPT !.autoPlayIsActive = FALSE]
  ELSE
    LET validMoves == getValidMovesForAutoPlay(S, autoPlayDepth)
        moveEntry == selectedEntry(S)
        path == IF Len(validMoves) > 0 THEN "depth"
                ELSE IF Len(validMovesOfAny(S)) > 0 THEN "filter"
                ELSE "fallback"
    IN IF moveEntry = Null \/ moveEntry[1].move = NoMove THEN S
       ELSE
         LET e == moveEntry[1]
             success == executeMove(S, page)
         IN [S EXCEPT
               !.execs = Append(@,
                 [move |-> e.move, timestamp |-> DateOf(e.timestamp),
                  req |-> e.req, lastOpp |-> S.lastOpponentMoveTimestamp,
                  oppReq |-> S.oppReq, path |-> path, success |-> success,
                  waiting |-> S.waitingForOpponentMove,
                  active |-> S.isActive]),
               !.turnExecs = IF success \/ @ > 0
                               THEN Min(@ + 1, MaxCounted) ELSE @,
               !.settleTimers = IF success THEN @ + 1 ELSE @]

\* ============================================================== ChessAssistant
\* handleEngineUpdate: one listener's reaction to an info or bestmove event
handleEngineUpdate(S, isFinal, page) ==
  IF S.currentBestMove = NoMove THEN S
  ELSE
    LET S1 == addEntry(S, S.currentBestMove, S.currentScore, S.currentDepth,
                       isFinal)
        S2 == IF isAutoPlayActive(S1) /\ isFinal
                   /\ ~S1.waitingForOpponentMove
                THEN executeAutoPlay(S1, page) ELSE S1
    IN [S2 EXCEPT !.adds[Len(S1.adds)].stopsAfter = S2.stops]

\* =============================================================== EngineService
\* emit(event): every subscribed listener runs, one after the other; the
\* listeners of setupEngineListener act on 'info' and 'bestmove' only
RECURSIVE Deliver(_, _, _, _)
Deliver(S, isFinal, page, n) ==
  IF n = 0 THEN S
  ELSE Deliver(handleEngineUpdate(S, isFinal, page), isFinal, page, n - 1)

\* observer: the type of the event emitted
Emitted(type) ==
  CASE type = "info" -> "emit info"
    [] type = "bestmove" -> "emit bestmove"
    [] OTHER -> "emit error"

emit(S, type, page) ==
  IF type \in {"info", "bestmove"}
    THEN Deliver(Noted(S, Emitted(type)), type = "bestmove", page,
                 S.listeners)
    ELSE Noted(S, Emitted(type))

FreeSlots(S) == (1..MaxWorkers) \ S.live

\* initialize(): created says whether `new Worker(path)` succeeded
initialize(S, created) ==
  IF created
    THEN LET w == CHOOSE x \in FreeSlots(S) : \A y \in FreeSlots(S) : x <= y
         IN [S EXCEPT !.worker = w, !.live = @ \cup {w},
                      !.wsearch[w] = 0, !.state = "idle"]
    ELSE [S EXCEPT !.worker = 0, !.state = "error"]

\* observer: an analyze() call, its depth and whether it reached a worker
Submitted(S, depth) ==
  [S EXCEPT !.subs = Append(@, [depth |-> depth, posted |-> S.worker # 0])]

analyze(S0, depth) ==
  LET S == Submitted(S0, depth)
  IN
  IF S.worker = 0 THEN S
  ELSE [S EXCEPT !.analysisTimeout = TRUE, !.state = "analyzing",
                 !.currentBestMove = NoMove, !.currentScore = Null,
                 !.currentDepth = 0, !.accReq = 0,
                 !.nReq = @ + 1, !.wsearch[S.worker] = S.nReq + 1]

analyzeQuick(S) == analyze(S, autoPlayDepth)

\* mutant: the state is not looked at
stop_Unguarded(S) ==
  IF S.worker # 0
    THEN [S EXCEPT !.stops = @ + 1, !.state = "stopped"]
    ELSE S

stop(S) ==
  IF S.worker # 0 /\ S.state = "analyzing"
    THEN [S EXCEPT !.stops = @ + 1, !.state = "stopped"]
    ELSE S

terminate(S) ==
  IF S.worker # 0
    THEN [Noted(S, "terminate") EXCEPT !.live = @ \ {S.worker},
                   !.inflight = SelectSeq(@, LAMBDA m : m.w # S.worker),
                   !.wsearch[S.worker] = 0,
                   !.worker = 0, !.state = "idle"]
    ELSE S

\* observer: a bestmove event of analyze() request req is about to be
\* emitted; the request of the latest one is remembered
Final(S, req) ==
  [(IF S.finalReq = req THEN Noted(S, "final again") ELSE S) EXCEPT
     !.finalReq = req]

\* observer: the line names no move
LineWithoutMove(S, msg) ==
  IF msg.move \in {NoMove, NoneToken} THEN Noted(S, "no move") ELSE S

\* mutant: the move token is not looked at
handleBestMove_Unchecked(S, msg, page) ==
  emit([Final(LineWithoutMove(S, msg), msg.req) EXCEPT
          !.analysisTimeout = FALSE, !.currentBestMove = msg.move,
          !.state = "idle", !.accReq = msg.req],
       "bestmove", page)

handleBestMove(S, msg, page) ==
  LET S1 == [LineWithoutMove(S, msg) EXCEPT !.analysisTimeout = FALSE]
  IN IF msg.move = NoMove \/ msg.move = NoneToken THEN S1
     ELSE emit([Final(S1, msg.req) EXCEPT
                  !.currentBestMove = msg.move, !.state = "idle",
                  !.accReq = msg.req],
               "bestmove", page)

handleInfo(S, msg, page) ==
  emit([S EXCEPT !.currentScore = Some(msg.score),
                 !.currentDepth = msg.depth,
                 !.currentBestMove = msg.move, !.accReq = msg.req],
       "info", page)

onmessage(S, msg, page) ==
  IF msg.kind = "bestmove" THEN handleBestMove(S, msg, page)
  ELSE handleInfo(S, msg, page)

onerror(S, page) ==
  emit([Noted(S, "error") EXCEPT !.state = "error"], "error", page)

\* the callback of the ANALYSIS_TIMEOUT timer set by analyze()
analysisTimeoutCallback(S, page) ==
  LET S1 == [S EXCEPT !.analysisTimeout = FALSE]
  IN IF S.state = "analyzing" /\ S.currentBestMove # NoMove
       THEN emit([Final(S1, S.nReq) EXCEPT !.state = "idle"],
                 "bestmove", page)
       ELSE S1

\* ================================================= ChessAssistant (continued)
startBoardPolling(S) ==
  [updateLastBoardState(S) EXCEPT !.pollingInterval = TRUE,
                                  !.waitingForOpponentMove = FALSE]

stopBoardPolling(S) == [S EXCEPT !.pollingInterval = FALSE]

setupEngineListener(S) == [S EXCEPT !.listeners = @ + 1]

promptForColor(S, found) ==
  LET S1 == [S EXCEPT !.boardElement = found]
  IN IF ~found THEN S1 ELSE showColorSelection(S1)

activate(S0, color, created) ==
  LET S == IF created THEN S0 ELSE Noted(S0, "initialize failed")
      S1 == initialize([S EXCEPT !.playerColor = color], created)
  IN IF ~created THEN showInactiveState(S1)
     ELSE
       LET S2 == startBoardPolling(setupEngineListener(S1))
           S3 == showActiveState(
                   [S2 EXCEPT !.isActive = TRUE, !.turnExecs = 0,
                              !.stale = IF S0.isActive THEN @
                                        ELSE Pending(S0),
                              !.pollLog = <<[kind |-> "Activated",
                                             position |-> S2.lastBoardState]>>])
       IN analyze(S3, defaultDepth)

\* mutant: the active flag is flipped, as by a start/stop toggle
deactivate_Toggle(S0) ==
  LET S == Noted(S0, "deactivate")
      S1 == terminate(stopBoardPolling(S))
      S2 == [S1 EXCEPT !.isActive = ~@, !.autoPlayIsActive = FALSE]
  IN showInactiveState(clearHistory(S2))

deactivate(S0) ==
  LET S == Noted(S0, "deactivate")
      S1 == terminate(stopBoardPolling(S))
      S2 == [S1 EXCEPT !.isActive = FALSE, !.autoPlayIsActive = FALSE]
  IN showInactiveState(clearHistory(S2))

\* observer: the positions this activation has seen and how each change was
\* classified (the start and the first two changes)
Classified(S, kind) ==
  [Noted(S, kind) EXCEPT !.pollLog =
     IF Len(@) < MaxLogged
       THEN Append(@, [kind |-> kind, position |-> S.lastBoardState])
       ELSE @]

\* mutant: the branch of the player's own move submits an analysis too
handleBoardChange_AlwaysAnalyzes(S) ==
  IF S.waitingForOpponentMove
    THEN
      LET S1 == [S EXCEPT !.waitingForOpponentMove = FALSE]
          S2 == clearHistory(recordOpponentMove(S1))
          S3 == analyze([S2 EXCEPT !.oppReq = S.nReq + 1], defaultDepth)
          S4 == IF isAutoPlayActive(S3)
                  THEN [S3 EXCEPT !.quickTimers = @ + 1] ELSE S3
      IN Classified([S4 EXCEPT !.turnExecs = 0], "OpponentMoved")
    ELSE
      Classified(analyze(updateLastBoardState(
                           [S EXCEPT !.waitingForOpponentMove = TRUE]),
                         defaultDepth),
                 "OwnMoveCompleted")

handleBoardChange(S) ==
  IF S.waitingForOpponentMove
    THEN \* opponent has moved
      LET S1 == [S EXCEPT !.waitingForOpponentMove = FALSE]
          S2 == clearHistory(recordOpponentMove(S1))
          S3 == analyze([S2 EXCEPT !.oppReq = S.nReq + 1], defaultDepth)
          S4 == IF isAutoPlayActive(S3)
                  THEN [S3 EXCEPT !.quickTimers = @ + 1] ELSE S3
      IN Classified([S4 EXCEPT !.turnExecs = 0], "OpponentMoved")
    ELSE \* we made a move
      Classified(updateLastBoardState(
                   [S EXCEPT !.waitingForOpponentMove = TRUE]),
                 "OwnMoveCompleted")

\* the setInterval callback of startBoardPolling
pollTick(S) ==
  IF ~S.isActive THEN S
  ELSE IF hasBoardChanged(S)
    THEN handleBoardChange([S EXCEPT !.lastBoardState = generateFEN(S)])
    ELSE S

\* mutant: the callback does not look at the auto-play flag again
quickAnalysisCallback_Unchecked(S) ==
  LET S1 == [Fired(S, "quick") EXCEPT !.quickTimers = @ - 1]
  IN [analyzeQuick(S1) EXCEPT !.execTimers = @ + 1]

\* the 100 ms callback set by handleBoardChange
quickAnalysisCallback(S) ==
  LET S1 == [Fired(S, "quick") EXCEPT !.quickTimers = @ - 1]
  IN IF isAutoPlayActive(S1)
       THEN [analyzeQuick(S1) EXCEPT !.execTimers = @ + 1]
       ELSE S1

\* the 500 ms callback set by the 100 ms callback
autoPlayCallback(S, page) ==
  executeAutoPlay([Fired(S, "exec") EXCEPT !.execTimers = @ - 1], page)

\* the 800 ms callback set by executeAutoPlay after a successful executeMove
settleCallback(S) ==
  updateLastBoardState([Fired(S, "settle") EXCEPT
                          !.settleTimers = @ - 1,
                          !.waitingForOpponentMove = TRUE])

handleAutoPlayToggle(S, active, page) ==
  LET S1 == [S EXCEPT !.autoPlayIsActive = active]
  IN IF active /\ ~S1.waitingForOpponentMove
       THEN executeAutoPlay(S1, page) ELSE S1

\* ===================================================================== actions
\* the state a handler of an event of the environment starts from
Event == [Now EXCEPT !.events = @ + 1]

\* control button: onActivate -> promptForColor
ClickControl ==
  /\ ~controlDisabled
  /\ \E found \in BOOLEAN : Do(promptForColor(Event, found))

\* a colour button: onColorSelect -> activate
ClickColor ==
  /\ colorShown
  /\ \E color \in Colors, created \in BOOLEAN :
       /\ created => FreeSlots(Cur) # {}
       /\ Do(activate(Event, color, created))

\* auto-play button: onAutoPlayToggle -> handleAutoPlayToggle
ClickAutoPlay ==
  /\ secondaryShown
  /\ \E page \in PageAnswers :
       Do(handleAutoPlayToggle([Event EXCEPT !.panelAutoPlay = ~@],
                               ~panelAutoPlay, page))

\* change-colour button: onDeactivate, then showColorSelection
ClickChangeColor ==
  /\ secondaryShown
  /\ Do(showColorSelection(deactivate(Event)))

PollTick ==
  /\ pollingInterval
  /\ Do(pollTick(Now))

QuickAnalysisTimer ==
  /\ quickTimers > 0
  /\ Do(quickAnalysisCallback(Now))

AutoPlayTimer ==
  /\ execTimers > 0
  /\ \E page \in PageAnswers : Do(autoPlayCallback(Now, page))

SettleTimer ==
  /\ settleTimers > 0
  /\ Do(settleCallback(Now))

AnalysisTimeout ==
  /\ analysisTimeout
  /\ \E page \in PageAnswers : Do(analysisTimeoutCallback(Now, page))

\* a worker posts an info line of its current search
WorkerInfo ==
  /\ Len(inflight) < MaxInflight
  /\ \E w \in live, move \in Moves, score \in Scores, depth \in Depths :
       /\ wsearch[w] # 0
       /\ Do([Event EXCEPT
                !.inflight = Append(@, [w |-> w, kind |-> "info",
                                        move |-> move, score |-> score,
                                        depth |-> depth,
                                        req |-> wsearch[w]])])

\* a worker ends its current search with a bestmove line
WorkerBestMove ==
  /\ Len(inflight) < MaxInflight
  /\ \E w \in live, move \in Moves \cup {NoneToken, NoMove} :
       /\ wsearch[w] # 0
       /\ Do([Event EXCEPT
                !.wsearch[w] = 0,
                !.inflight = Append(@, [w |-> w, kind |-> "bestmove",
                                        move |-> move, score |-> 0,
                                        depth |-> 0, req |-> wsearch[w]])])

\* the main thread handles a queued worker message (in order per worker)
WorkerMessage ==
  \E i \in 1..Len(inflight), page \in PageAnswers :
    /\ \A j \in 1..(i - 1) : inflight[j].w # inflight[i].w
    /\ Do(onmessage([Now EXCEPT !.inflight =
                       SubSeq(@, 1, i - 1) \o SubSeq(@, i + 1, Len(@))],
                    inflight[i], page))

WorkerError ==
  /\ live # {}
  /\ \E page \in PageAnswers : Do(onerror(Event, page))

\* a move is played on the page (by either side): a position not seen before
BoardChanges ==
  /\ events < MaxEvents
  /\ Do([Event EXCEPT !.board = @ + 1])

Tick ==
  /\ now < MaxTime
  /\ Do([Now EXCEPT !.now = @ + 1])

\* ============================================================== specification
Init ==
  /\ isActive = FALSE
  /\ playerColor = "w"
  /\ pollingInterval = FALSE
  /\ waitingForOpponentMove = FALSE
  /\ autoPlayIsActive = FALSE
  /\ history = <<>>
  /\ lastBestMove = NoMove
  /\ moveRepetitionCount = 0
  /\ lastOpponentMoveTimestamp = Null
  /\ worker = 0
  /\ state = "idle"
  /\ currentBestMove = NoMove
  /\ currentScore = Null
  /\ currentDepth = 0
  /\ analysisTimeout = FALSE
  /\ listeners = 0
  /\ boardElement = FALSE
  /\ lastBoardState = Null
  /\ colorShown = FALSE
  /\ controlDisabled = FALSE
  /\ secondaryShown = FALSE
  /\ panelAutoPlay = FALSE
  /\ quickTimers = 0
  /\ execTimers = 0
  /\ settleTimers = 0
  /\ board = 0
  /\ events = 0
  /\ now = 0
  /\ live = {}
  /\ wsearch = [w \in 1..MaxWorkers |-> 0]
  /\ inflight = <<>>
  /\ nReq = 0
  /\ accReq = 0
  /\ oppReq = 0
  /\ seen = NoCalls
  /\ pollLog = <<>>
  /\ stale = NoneStale
  /\ turnExecs = 0
  /\ finalReq = 0
  /\ adds = <<>>
  /\ execs = <<>>
  /\ stops = 0
  /\ notes = {}
  /\ subs = <<>>

Next ==
  \/ ClickControl
  \/ ClickColor
  \/ ClickAutoPlay
  \/ ClickChangeColor
  \/ PollTick
  \/ QuickAnalysisTimer
  \/ AutoPlayTimer
  \/ SettleTimer
  \/ AnalysisTimeout
  \/ WorkerInfo
  \/ WorkerBestMove
  \/ WorkerMessage
  \/ WorkerError
  \/ BoardChanges
  \/ Tick

Spec == Init /\ [][Next]_vars

\* A third start, for one turn of the game: the assistant has been activated
\* at position 0, the player has moved and a poll has seen it, so the
\* assistant waits for the opponent; the first search is still running.  From
\* here the game goes on, the engine reports, auto-play is switched on and
\* off, and the host guarantees that a pending setTimeout callback runs.
\* The part of the event budget that this start counts as spent.
SpentAtTurn == 3

InitTurn ==
  /\ isActive = TRUE
  /\ playerColor = "w"
  /\ pollingInterval = TRUE
  /\ waitingForOpponentMove = TRUE
  /\ autoPlayIsActive = FALSE
  /\ history = <<>>
  /\ lastBestMove = NoMove
  /\ moveRepetitionCount = 0
  /\ lastOpponentMoveTimestamp = Null
  /\ worker = 1
  /\ state = "analyzing"
  /\ currentBestMove = NoMove
  /\ currentScore = Null
  /\ currentDepth = 0
  /\ analysisTimeout = TRUE
  /\ listeners = 1
  /\ boardElement = TRUE
  /\ lastBoardState = Some(1)
  /\ colorShown = FALSE
  /\ controlDisabled = FALSE
  /\ secondaryShown = TRUE
  /\ panelAutoPlay = FALSE
  /\ quickTimers = 0
  /\ execTimers = 0
  /\ settleTimers = 0
  /\ board = 1
  /\ events = SpentAtTurn
  /\ now = 0
  /\ live = {1}
  /\ wsearch = [w \in 1..MaxWorkers |-> IF w = 1 THEN 1 ELSE 0]
  /\ inflight = <<>>
  /\ nReq = 1
  /\ accReq = 0
  /\ oppReq = 0
  /\ seen = NoCalls
  /\ pollLog = <<[kind |-> "Activated", position |-> Some(0)],
                 [kind |-> "OwnMoveCompleted", position |-> Some(1)]>>
  /\ stale = NoneStale
  /\ turnExecs = 0
  /\ finalReq = 0
  /\ adds = <<>>
  /\ execs = <<>>
  /\ stops = 0
  /\ notes = {}
  /\ subs = <<>>

NextTurn ==
  \/ ClickAutoPlay
  \/ PollTick
  \/ QuickAnalysisTimer
  \/ AutoPlayTimer
  \/ SettleTimer
  \/ WorkerInfo
  \/ WorkerBestMove
  \/ WorkerMessage
  \/ BoardChanges

SpecTurn ==
  /\ InitTurn
  /\ [][NextTurn]_vars
  /\ WF_vars(QuickAnalysisTimer)
  /\ WF_vars(AutoPlayTimer)

\* A second start: the assistant has been activated once and the engine has
\* reported MAX_HISTORY_SIZE - 1 info lines since, alternating between two
\* moves (so none was a duplicate or a repetition).  Every field is what that
\* run leaves behind.
\* The part of the event budget that this start counts as spent.
SpentAtFull == 3

AlternatingHistory(n) ==
  [i \in 1..n |->
     Entry(IF i % 2 = 1 THEN "e2e4" ELSE "d2d4", Some(20), autoPlayDepth,
           FALSE, 0, 1)]

InitFull ==
  /\ isActive = TRUE
  /\ playerColor = "w"
  /\ pollingInterval = TRUE
  /\ waitingForOpponentMove = FALSE
  /\ autoPlayIsActive = FALSE
  /\ history = AlternatingHistory(MAX_HISTORY_SIZE - 1)
  /\ lastBestMove = "e2e4"
  /\ moveRepetitionCount = 1
  /\ lastOpponentMoveTimestamp = Null
  /\ worker = 1
  /\ state = "analyzing"
  /\ currentBestMove = "e2e4"
  /\ currentScore = Some(20)
  /\ currentDepth = autoPlayDepth
  /\ analysisTimeout = TRUE
  /\ listeners = 1
  /\ boardElement = TRUE
  /\ lastBoardState = Some(0)
  /\ colorShown = FALSE
  /\ controlDisabled = FALSE
  /\ secondaryShown = TRUE
  /\ panelAutoPlay = FALSE
  /\ quickTimers = 0
  /\ execTimers = 0
  /\ settleTimers = 0
  /\ board = 0
  /\ events = SpentAtFull
  /\ now = 0
  /\ live = {1}
  /\ wsearch = [w \in 1..MaxWorkers |-> IF w = 1 THEN 1 ELSE 0]
  /\ inflight = <<>>
  /\ nReq = 1
  /\ accReq = 1
  /\ oppReq = 0
  /\ seen = [called |-> TRUE, move |-> "e2e4", depth |-> autoPlayDepth,
             calls |-> 1, passed |-> 1, passMove |-> "e2e4"]
  /\ pollLog = <<[kind |-> "Activated", position |-> Some(0)]>>
  /\ stale = NoneStale
  /\ turnExecs = 0
  /\ finalReq = 0
  /\ adds = <<>>
  /\ execs = <<>>
  /\ stops = 0
  /\ notes = {}
  /\ subs = <<>>

SpecFull == InitFull /\ [][Next]_vars

\* The AnalysisManager on its own: a fresh manager whose public methods are
\* called in any order with any arguments, as a unit test would call them.
MaxCalls == 4
MaxLater == 2

AnyMove == Moves \cup {NoMove}
AnyScore == {Null} \cup {Some(s) : s \in Scores}
AnyDepth == Depths \cup {0}

CallAddEntry ==
  /\ events < MaxCalls
  /\ \E move \in AnyMove, score \in AnyScore, depth \in AnyDepth,
        isFinal \in BOOLEAN :
       Do(addEntry(Event, move, score, depth, isFinal))

CallClearHistory ==
  /\ events < MaxCalls
  /\ Do(clearHistory(Event))

CallRecordOpponentMove ==
  /\ events < MaxCalls
  /\ Do(recordOpponentMove(Event))

\* time passes between two calls
Later ==
  /\ now < MaxLater
  /\ Do([Now EXCEPT !.now = @ + 1])

NextManager ==
  \/ CallAddEntry
  \/ CallClearHistory
  \/ CallRecordOpponentMove
  \/ Later

SpecManager == Init /\ [][NextManager]_vars

\* The EngineService on its own: a fresh service whose public methods are
\* called in any order while its workers post lines and fail.  Nothing is
\* subscribed, so emit() reaches no listener.
CallInitialize ==
  /\ events < MaxEvents
  /\ \E created \in BOOLEAN :
       /\ created => FreeSlots(Cur) # {}
       /\ Do(initialize(Event, created))

CallAnalyze ==
  /\ events < MaxEvents
  /\ \E depth \in {defaultDepth, autoPlayDepth} : Do(analyze(Event, depth))

CallStop ==
  /\ events < MaxEvents
  /\ Do(stop(Noted(Event, "stop()")))

CallTerminate ==
  /\ events < MaxEvents
  /\ Do(terminate(Noted(Event, "terminate()")))

NextEngine ==
  \/ CallInitialize
  \/ CallAnalyze
  \/ CallStop
  \/ CallTerminate
  \/ AnalysisTimeout
  \/ WorkerInfo
  \/ WorkerBestMove
  \/ WorkerMessage
  \/ WorkerError

SpecEngine == Init /\ [][NextEngine]_vars

\* ====================================================================== claims
Calls == {adds[i] : i \in 1..Len(adds)}
Executions == {execs[i] : i \in 1..Len(execs)}
Elements(s) == {s[i] : i \in 1..Len(s)}

\* C1: whatever addEntry and clear calls are made, the history never holds
\* more than MAX_HISTORY_SIZE (100) entries.
C1_HistoryBounded == Len(history) <= MAX_HISTORY_SIZE

\* an entry was accepted while the history already held 100
C1_Witness ==
  /\ Len(history) = MAX_HISTORY_SIZE
  /\ \E c \in Calls : c.accepted /\ c.lenBefore = MAX_HISTORY_SIZE

C3_ThirdCallRejected ==
  \A c \in Calls :
    (c.calls >= MAX_REPETITION_COUNT /\ c.depth >= REPETITION_DEPTH_THRESHOLD)
      => (~c.accepted /\ ~c.histChanged)

\* C3 (amended): counting only the calls that pass validation and the
\* duplicate check, the 3rd or a later consecutive call reporting the same
\* move, made at depth >= 20, returns false and adds nothing.
C3_ThirdPassedCallRejected ==
  \A c \in Calls :
    (c.passed >= MAX_REPETITION_COUNT /\ c.depth >= REPETITION_DEPTH_THRESHOLD)
      => (~c.accepted /\ ~c.histChanged)

C3_Witness ==
  \E c \in Calls :
    /\ c.passed >= MAX_REPETITION_COUNT
    /\ c.depth >= REPETITION_DEPTH_THRESHOLD
    /\ c.why = "repetition"

\* C4: every addEntry call rejected by the repetition cutoff makes the handler
\* send exactly one stop() to the engine.
C4_CutoffStopsEngine ==
  \A c \in Calls :
    c.why = "repetition" => c.stopsAfter - c.stopsBefore = 1

\* C5: getValidMovesForAutoPlay returns only entries timestamped strictly
\* after lastOpponentMoveTimestamp whose depth is the target depth, and the
\* filter of getAnyValidMoveForAutoPlay keeps only entries strictly after it.
C5_OnlyEntriesAfterOpponentMove ==
  /\ \A e \in Elements(getValidMovesForAutoPlay(Cur, autoPlayDepth)) :
       /\ DateOf(e.timestamp) > lastOpponentMoveTimestamp[1]
       /\ e.depth = autoPlayDepth
  /\ \A e \in Elements(validMovesOfAny(Cur)) :
       DateOf(e.timestamp) > lastOpponentMoveTimestamp[1]

\* the history holds an entry that is not after the opponent's move beside
\* one that is, and the filters return something
C5_Witness ==
  /\ lastOpponentMoveTimestamp # Null
  /\ \E e \in Elements(history) :
       DateOf(e.timestamp) <= lastOpponentMoveTimestamp[1]
  /\ Len(getValidMovesForAutoPlay(Cur, autoPlayDepth)) > 0
  /\ Len(validMovesOfAny(Cur)) > 0

\* C6: the entry executeAutoPlay selects is never timestamped before the most
\* recent opponent move, the last-resort fallback included.
C6_SelectedNotBeforeOpponentMove ==
  \A x \in Executions :
    x.lastOpp # Null => x.timestamp >= x.lastOpp[1]

\* the fallback to history[0] was taken after an opponent move
C6_Witness ==
  \E x \in Executions : x.lastOpp # Null /\ x.path = "fallback"

\* C7: no move handed to the executor comes from a search submitted before
\* the latest opponent move was detected.
C7_NoMoveFromEarlierSearch ==
  \A x \in Executions : x.req >= x.oppReq

\* C8: within an activation that starts at a position P0 of the board, the
\* first detected change of position is classified OwnMoveCompleted and the
\* second OpponentMoved.
C8_TurnClassification ==
  (\A i \in 1..Len(pollLog) : pollLog[i].position # Null) =>
    /\ Len(pollLog) >= 2 => pollLog[2].kind = "OwnMoveCompleted"
    /\ Len(pollLog) >= 3 => pollLog[3].kind = "OpponentMoved"

\* C9: a deactivation leaves the poll timer cancelled, the engine session
\* terminated, the history empty and the turn state reset.
C9_DeactivationResets ==
  [][(isActive /\ ~isActive') =>
       /\ ~pollingInterval'
       /\ worker' = 0
       /\ history' = <<>>
       /\ ~waitingForOpponentMove'
       /\ lastOpponentMoveTimestamp' = Null]_vars

\* C10: while the assistant is inactive no step other than an activation
\* appends to the history, submits an analysis, changes the turn state or
\* executes a move.
C10_QuietWhileInactive ==
  [][(~isActive /\ ~isActive') =>
       /\ history' = history
       /\ nReq' = nReq
       /\ waitingForOpponentMove' = waitingForOpponentMove
       /\ lastOpponentMoveTimestamp' = lastOpponentMoveTimestamp
       /\ execs' = <<>>]_vars

\* C11: deactivating twice in a row ends in the state that deactivating once
\* ends in; the second call terminates no engine and clears nothing more.
C11_DeactivateTwice ==
  LET once == deactivate(Now)
      twice == deactivate([once EXCEPT !.notes = {}])
  IN /\ "terminate" \notin twice.notes
     /\ [twice EXCEPT !.notes = once.notes] = once

\* an active state with a running engine, a leaked worker and a history: the
\* first deactivation has something to stop, terminate and clear
C11_Witness ==
  /\ isActive /\ pollingInterval /\ worker # 0
  /\ Len(history) > 0
  /\ live # {worker}
  /\ "terminate" \in deactivate(Now).notes

\* C12: when the engine reports a runtime error the loop is inactive
\* afterwards and its poll timer is stopped.
C12_ErrorDeactivates ==
  "error" \in notes => (~isActive /\ ~pollingInterval)

\* C13: at most one engine worker is live at any time.
C13_OneLiveWorker == Cardinality(live) <= 1

\* C14: a bestmove event that follows info events of its search (so that a
\* score and a depth in range are known) is recorded as a final entry of its
\* own at the head of the history.
C14_BestMoveRecorded ==
  \A c \in Calls :
    (c.isFinal /\ c.why # "invalid") =>
      /\ c.accepted
      /\ Len(history) = c.lenBefore + 1
      /\ history[1].isFinal

\* the indices of the entries stamped after the opponent's latest move
AfterOpponentMove ==
  {i \in 1..Len(history) :
     /\ lastOpponentMoveTimestamp # Null
     /\ DateOf(history[i].timestamp) > lastOpponentMoveTimestamp[1]}

Qualifying == {i \in AfterOpponentMove : history[i].depth = autoPlayDepth}

\* C15: when the history holds an entry of the auto-play depth stamped after
\* the opponent's latest move, the entry selected for execution is the most
\* recent such entry, whatever older or deeper entries the history holds.
C15_SelectsFreshestDepthMatch ==
  Qualifying # {} =>
    \E i \in Qualifying :
      /\ \A j \in Qualifying : i <= j
      /\ selectedEntry(Cur) = Some(history[i])

\* a deeper entry stamped before the opponent's move is in the history too
C15_Witness ==
  /\ Qualifying # {}
  /\ \E j \in 1..Len(history) :
       /\ history[j].depth > autoPlayDepth
       /\ DateOf(history[j].timestamp) < lastOpponentMoveTimestamp[1]

\* C16: when the game-over markers are present as executeAutoPlay runs, no
\* move is executed and auto-play is switched off; and a move is executed
\* only while auto-play is switched on.
C16_GameOverDisablesAutoPlay ==
  /\ "gameover" \in notes => (execs = <<>> /\ ~autoPlayIsActive)
  /\ execs # <<>> => autoPlayIsActive

\* the game was over when a recorded move was about to be played
C16_Witness ==
  /\ "gameover" \in notes
  /\ Len(history) > 0
  /\ isActive /\ ~waitingForOpponentMove

\* C17: a final entry with a move and a depth in range is not rejected by the
\* validation, whatever its score.
C17_FinalNotRejectedForScore ==
  \A c \in Calls :
    (c.isFinal /\ c.move # NoMove /\ c.depth >= MIN_DEPTH
       /\ c.depth <= MAX_DEPTH) => c.why # "invalid"

\* C18: an entry accepted while the history holds MAX_HISTORY_SIZE entries
\* becomes the head, the tail is removed and the others keep their order.
C18_EvictsOldest ==
  [][\A i \in 1..Len(adds') :
       (adds'[i].accepted /\ adds'[i].lenBefore = MAX_HISTORY_SIZE) =>
         /\ Len(history') = MAX_HISTORY_SIZE
         /\ history'[1].move = adds'[i].move
         /\ history'[1].depth = adds'[i].depth
         /\ \A k \in 2..MAX_HISTORY_SIZE : history'[k] = history[k - 1]]_vars

\* after an accepted call at capacity the tail is the entry that was second
\* to last of the alternating history
C18_Witness ==
  /\ \E c \in Calls : c.accepted /\ c.lenBefore = MAX_HISTORY_SIZE
  /\ history[MAX_HISTORY_SIZE] = AlternatingHistory(MAX_HISTORY_SIZE - 1)[MAX_HISTORY_SIZE - 2]

Finals == {i \in 1..Len(history) : history[i].isFinal}

\* C19: getLatestBestMove returns the move of the most recent final entry if
\* there is one, else the move of the most recent entry, else null.
C19_LatestBestMove ==
  getLatestBestMove(Cur) =
    IF Finals # {}
      THEN history[CHOOSE i \in Finals : \A j \in Finals : i <= j].move
    ELSE IF Len(history) > 0 THEN history[1].move
    ELSE NoMove

\* a final entry lies under a newer entry that is not final and names
\* another move
C19_Witness ==
  /\ Finals # {}
  /\ 1 \notin Finals
  /\ getLatestBestMove(Cur) # history[1].move

\* C20: among the entries stamped after the opponent's latest move
\* getAnyValidMoveForAutoPlay returns a final one if there is one, else one of
\* the greatest depth; when there is none it returns the most recent entry,
\* and null only for an empty history.
C20_AnyValidMove ==
  LET r == getAnyValidMoveForAutoPlay(Cur)
      V == AfterOpponentMove
  IN IF V # {}
       THEN \E i \in V :
              /\ r = Some(history[i])
              /\ (V \cap Finals # {}) => i \in Finals
              /\ (V \cap Finals = {}) =>
                   \A j \in V : history[i].depth >= history[j].depth
       ELSE r = IF Len(history) > 0 THEN Some(history[1]) ELSE Null

\* a final entry is returned although a deeper one that is not final
\* qualifies too
C20_Witness ==
  \E i \in AfterOpponentMove \cap Finals :
    \E j \in AfterOpponentMove \ Finals :
      /\ history[j].depth > history[i].depth
      /\ getAnyValidMoveForAutoPlay(Cur) = Some(history[i])

\* C21: a stop() call posts 'stop' to the worker and moves the session to
\* 'stopped' only when there is a worker and the session is 'analyzing'; in
\* every other state it posts nothing and leaves every field as it was.
C21_StopOnlyWhileAnalyzing ==
  [][("stop()" \in notes') =>
       IF worker # 0 /\ state = "analyzing"
         THEN /\ stops' = 1
              /\ state' = "stopped"
              /\ worker' = worker
         ELSE /\ stops' = 0
              /\ <<worker, state, currentBestMove, currentScore, currentDepth,
                   analysisTimeout, live, wsearch, inflight>>'
                 = <<worker, state, currentBestMove, currentScore,
                     currentDepth, analysisTimeout, live, wsearch, inflight>>
    ]_vars

\* stop() has been called on a session that was analysing
C21_Witness ==
  /\ "stop()" \in notes
  /\ stops = 1
  /\ state = "stopped"

C23_NoValuesOfEarlierRequest ==
  \A c \in Calls : c.accepted => history[1].req = nReq

\* C24: handling a bestmove line whose move token is '(none)' or missing
\* emits no event, calls addEntry for nothing, leaves the history as it was
\* and hands no move to the executor.
C24_NoMoveLineIsDropped ==
  [][("no move" \in notes') =>
       /\ "emit bestmove" \notin notes'
       /\ adds' = <<>>
       /\ execs' = <<>>
       /\ history' = history]_vars

\* such a line was handled while a listener was subscribed, auto-play was on,
\* it was the player's turn and the history held a move to play
C24_Witness ==
  /\ "no move" \in notes
  /\ listeners > 0
  /\ autoPlayIsActive /\ ~waitingForOpponentMove
  /\ Len(history) > 0

\* C25: when initialize() fails during an activation the assistant is
\* inactive afterwards: it is not marked active, no poll timer runs, no
\* analyze() call is made and no engine listener is subscribed.
C25_FailedActivationIsInactive ==
  [][("initialize failed" \in notes') =>
       /\ ~isActive'
       /\ ~pollingInterval'
       /\ subs' = <<>>
       /\ listeners' = listeners]_vars

\* C26: a delayed callback that was set before the latest activation began
\* and runs while the assistant is active calls no analyze(), hands no move
\* to the executor and leaves the turn state as it was.
C26_NoCallbackOfEarlierActivation ==
  [][("set before this activation" \in notes' /\ isActive) =>
       /\ subs' = <<>>
       /\ execs' = <<>>
       /\ waitingForOpponentMove' = waitingForOpponentMove
       /\ lastBoardState' = lastBoardState]_vars

\* C27: the poll that classifies a board change as OpponentMoved, in that one
\* step, empties the history, clears the waiting flag, sets
\* lastOpponentMoveTimestamp to the current time and calls analyze() exactly
\* once, at the standard depth, for the position it has just read.
C27_OpponentMovedStep ==
  [][("OpponentMoved" \in notes') =>
       /\ history' = <<>>
       /\ ~waitingForOpponentMove'
       /\ lastOpponentMoveTimestamp' = Some(now)
       /\ Len(subs') = 1
       /\ subs'[1].depth = defaultDepth
       /\ lastBoardState' = generateFEN(Cur)]_vars

\* the opponent's move was detected after time had passed, with auto-play
\* on, and the analysis call reached the worker
C27_Witness ==
  /\ "OpponentMoved" \in notes
  /\ history = <<>>
  /\ now > 0
  /\ lastOpponentMoveTimestamp = Some(now)
  /\ subs = <<[depth |-> defaultDepth, posted |-> TRUE]>>
  /\ autoPlayIsActive /\ quickTimers > 0

\* C29: the poll that classifies a board change as OwnMoveCompleted sets the
\* waiting flag and calls no analyze(); the history and
\* lastOpponentMoveTimestamp are left as they were.
C29_OwnMoveCompletedStep ==
  [][("OwnMoveCompleted" \in notes') =>
       /\ waitingForOpponentMove'
       /\ subs' = <<>>
       /\ history' = history
       /\ lastOpponentMoveTimestamp' = lastOpponentMoveTimestamp]_vars

\* the player's own move was detected with entries in the history and an
\* opponent move on record
C29_Witness ==
  /\ "OwnMoveCompleted" \in notes
  /\ waitingForOpponentMove
  /\ Len(history) > 0
  /\ lastOpponentMoveTimestamp # Null

\* C30: an engine event whose entry addEntry rejected hands no move to the
\* executor.
C30_RejectedEntryTriggersNothing ==
  (adds # <<>> /\ \A c \in Calls : ~c.accepted) => execs = <<>>

\* the 100 ms callback cannot run within the bounds of the model
QuickTimerBlocked == quickTimers > 0 /\ nReq >= MaxReq

\* C28: the step that detects the opponent's move with auto-play on calls
\* analyze() at the standard depth only and sets the 100 ms callback; that
\* callback, when auto-play is (still) on, calls analyze() at depth 2 and sets
\* the 500 ms callback, and when auto-play is off does neither; the 500 ms
\* callback calls executeAutoPlay; and both callbacks eventually run.
C28_AutoPlayAfterOpponentMove ==
  /\ [][/\ ("OpponentMoved" \in notes' /\ autoPlayIsActive) =>
             /\ quickTimers' = quickTimers + 1
             /\ \A i \in 1..Len(subs') : subs'[i].depth = defaultDepth
        /\ (quickTimers' < quickTimers) =>
             IF autoPlayIsActive
               THEN /\ Len(subs') = 1 /\ subs'[1].depth = autoPlayDepth
                    /\ execTimers' = execTimers + 1
                    /\ "executeAutoPlay" \notin notes'
               ELSE /\ subs' = <<>>
                    /\ execTimers' = execTimers
                    /\ "executeAutoPlay" \notin notes'
        /\ (execTimers' > execTimers) => quickTimers' < quickTimers
        /\ (execTimers' < execTimers) => "executeAutoPlay" \in notes'
       ]_vars
  /\ (quickTimers > 0) ~> (quickTimers = 0 \/ QuickTimerBlocked)
  /\ (execTimers > 0) ~> (execTimers = 0)

\* the 500 ms callback of a turn that began with the opponent's move has
\* called executeAutoPlay, which played a move of the depth-2 search
C28_Witness ==
  /\ "executeAutoPlay" \in notes
  /\ oppReq > 0
  /\ nReq > oppReq
  /\ autoPlayIsActive
  /\ quickTimers = 0 /\ execTimers = 0
  /\ \E x \in Executions : x.req = nReq

\* C31: right after a poll step classified OpponentMoved and right after a
\* deactivation the history is empty and the repetition tracker is reset
\* (no last move, count 0).
C31_ClearedOnTransition ==
  [][("OpponentMoved" \in notes' \/ "deactivate" \in notes') =>
       /\ history' = <<>>
       /\ lastBestMove' = NoMove
       /\ moveRepetitionCount' = 0]_vars

\* the opponent's move has been detected by a poll of a session that had
\* submitted a search before and has a listener subscribed
C31_Witness ==
  /\ "OpponentMoved" \in notes
  /\ history = <<>>
  /\ lastBestMove = NoMove
  /\ moveRepetitionCount = 0
  /\ nReq >= 2
  /\ listeners > 0

\* C32: between two consecutive detections of an opponent move (and between
\* an activation and the first detection), once executeMove has played a
\* move it is not called again.
C32_OneExecutionPerTurn == turnExecs <= 1

\* C33: executeMove is never called while waitingForOpponentMove is true.
C33_NoExecutionWhileWaiting ==
  \A x \in Executions : ~x.waiting

\* C34: the 800 ms callback never absorbs a change of position that the next
\* poll tick would have classified OpponentMoved: when the session is active
\* and polling, waits for the opponent, the board shows a position later than
\* the recorded one, and no callback of an earlier activation is pending,
\* the position is still unrecorded after the callback has run.
C34_SettleAbsorbsNoOpponentMove ==
  [][(/\ settleTimers' < settleTimers
      /\ stale = NoneStale
      /\ isActive /\ pollingInterval
      /\ waitingForOpponentMove
      /\ boardElement /\ lastBoardState # Null
      /\ hasBoardChanged(Cur)) => hasBoardChanged(Cur')]_vars

\* C35: as long as no more than one worker is live, no more than one listener
\* is subscribed to the engine events, and an emitted info or bestmove event
\* reaches addEntry at most once.
C35_OneListener ==
  Cardinality(live) <= 1 =>
    /\ listeners <= 1
    /\ Len(adds) <= 1

\* C36: no analyze() request has a second bestmove event emitted for it.
C36_OneFinalPerRequest == "final again" \notin notes

\* C37: once the bestmove line that ends the search of the session's worker
\* has been handled, the state is not 'analyzing', whatever move token the
\* line carries.
C37_IdleAfterBestMove ==
  [][(\E i \in 1..Len(inflight) :
        /\ inflight[i].kind = "bestmove"
        /\ inflight[i].w = worker
        /\ worker' = worker
        /\ inflight' = SubSeq(inflight, 1, i - 1)
                         \o SubSeq(inflight, i + 1, Len(inflight)))
       => state' # "analyzing"]_vars

\* C38: from a state in which auto-play is switched off, no step calls
\* executeMove unless it is the click that switches auto-play on: no pending
\* callback and no engine event executes a move.
C38_NoExecutionWhileDisabled ==
  [][(~autoPlayIsActive /\ panelAutoPlay' = panelAutoPlay)
       => execs' = <<>>]_vars

\* auto-play was switched off while the 500 ms callback was pending; the
\* callback has run executeAutoPlay with a move in the history and no move
\* was executed
C38_Witness ==
  /\ "executeAutoPlay" \in notes
  /\ ~autoPlayIsActive
  /\ "gameover" \notin notes
  /\ isActive
  /\ Len(history) > 0
  /\ execs = <<>>

\* C39: the history is ordered most recent first (no entry is stamped later
\* than the entry before it) and no two neighbours have the same move and
\* the same depth.
C39_NewestFirstNoAdjacentDuplicate ==
  \A i \in 1..(Len(history) - 1) :
    /\ DateOf(history[i].timestamp) >= DateOf(history[i + 1].timestamp)
    /\ ~(/\ history[i].move = history[i + 1].move
         /\ history[i].depth = history[i + 1].depth)

\* the head was stamped later than its neighbour, and a call repeating the
\* head's move and depth has just been rejected
C39_Witness ==
  /\ Len(history) >= 2
  /\ DateOf(history[1].timestamp) > DateOf(history[2].timestamp)
  /\ \E c \in Calls :
       c.why = "duplicate" /\ c.move = history[1].move
         /\ c.depth = history[1].depth
====
